---- MODULE Spec2Model ----
(***************************************************************************)
(* float-hash-of: a 64 bit hash is re-encoded as a "safe" IEEE-754 double  *)
(* (src/lib.rs).  A u64 is modelled as the set of its 1-bit positions      *)
(* (bit 0 is the least significant, bit 63 the sign of the double), so     *)
(* that &, | and ^ are intersection, union and symmetric difference and    *)
(* no 64 bit arithmetic is needed.                                         *)
(***************************************************************************)
EXTENDS Integers, FiniteSets, TLC

VARIABLES
    hash,       \* SpecFn: the u64 handed to hash_63_bits / hash_u64_to_f64
    result,     \* SpecFn: the u64 hash_63_bits returned, or None
    float,      \* SpecFn: the f64 hash_u64_to_f64 returned, or None
    asserted,   \* SpecFn: outcome of the asserts of tests::no_invalid_values
    pc,         \* SpecFn: position of the caller
    slots,      \* Spec: the FloatHashOf values constructed so far
    args,       \* Spec: what each FloatHashOf was constructed from
    out,        \* Spec: the last into_inner() call and the f64 it returned
    cmp         \* Spec: the last a == b and its result

vars == <<hash, result, float, asserted, pc, slots, args, out, cmp>>

(* Option<X>: None is the empty set, Some(x) the singleton of x. *)
None == {}
Some(x) == {x}
Unwrap(o) == CHOOSE x \in o : TRUE

----------------------------------------------------------------------------
(* Layout of a 64 bit IEEE-754 double: [1 sign][11 exponent][52 mantissa]. *)

U64Bits == 64
ExponentBits == 11
MantissaBits == 52

SignBit == U64Bits - 1
ExponentPositions == MantissaBits .. (MantissaBits + ExponentBits - 1)
MantissaPositions == 0 .. (MantissaBits - 1)
ExpAllOnes == 2^ExponentBits - 1
ExpBias == 2^(ExponentBits - 1) - 1

BitAnd(a, b) == a \cap b
BitOr(a, b) == a \cup b
BitXor(a, b) == (a \ b) \cup (b \ a)

ZERO == {}
U64_MAX == 0 .. (U64Bits - 1)

(* The u64 holding a small non-negative integer n (n < 2^31). *)
U64OfInt(n) == {i \in 0..30 : (n \div 2^i) % 2 = 1}

(* start << shift on u64: the bits shifted past bit 63 are dropped. *)
Shl(x, shift) == {i + shift : i \in {j \in x : j + shift < U64Bits}}

----------------------------------------------------------------------------
(* hash_63_bits, lib.rs:38-51.                                             *)

EXP_2 == {MantissaBits + ExponentBits - 1, MantissaBits + ExponentBits - 2}
EXP_1 == {MantissaBits + ExponentBits - 1}
EXP_0 == {}

(* Variants of hash_63_bits with one slip each, used to test the theorems. *)

(* the transform left out *)
hash_63_bits_noop(h) == h

(* the first arm ORs the two-bit mask instead of the one-bit mask *)
hash_63_bits_or2(h) ==
    CASE BitAnd(h, EXP_2) = EXP_0 -> BitOr(h, EXP_2)
      [] BitAnd(h, EXP_2) = EXP_2 -> BitXor(h, EXP_1)
      [] OTHER -> h

(* the second arm XORs the two-bit mask instead of the one-bit mask *)
hash_63_bits_xor2(h) ==
    CASE BitAnd(h, EXP_2) = EXP_0 -> BitOr(h, EXP_1)
      [] BitAnd(h, EXP_2) = EXP_2 -> BitXor(h, EXP_2)
      [] OTHER -> h

(* the default arm sets the bit too *)
hash_63_bits_always_set(h) ==
    CASE BitAnd(h, EXP_2) = EXP_0 -> BitOr(h, EXP_1)
      [] BitAnd(h, EXP_2) = EXP_2 -> BitXor(h, EXP_1)
      [] OTHER -> BitOr(h, EXP_1)

(* the masks written one binary digit too long: the window is bits 63, 62 *)
hash_63_bits_shifted(h) ==
    LET E2 == {SignBit, SignBit - 1}
        E1 == {SignBit}
    IN CASE BitAnd(h, E2) = EXP_0 -> BitOr(h, E1)
         [] BitAnd(h, E2) = E2 -> BitXor(h, E1)
         [] OTHER -> h

(* the window forced to the one pattern 10 *)
hash_63_bits_force10(h) == BitOr(h, EXP_1) \ BitXor(EXP_2, EXP_1)

hash_63_bits(h) ==
    CASE BitAnd(h, EXP_2) = EXP_0 -> BitOr(h, EXP_1)
      [] BitAnd(h, EXP_2) = EXP_2 -> BitXor(h, EXP_1)
      [] OTHER -> h

----------------------------------------------------------------------------
(* f64: a double is the record of its three fields; the exponent field is  *)
(* decoded to its integer value, the mantissa is kept as a set of bits.    *)

ExpField(bits) ==
    LET f[i \in 0..ExponentBits] ==
            IF i = 0 THEN 0
            ELSE f[i - 1] + (IF (MantissaBits + i - 1) \in bits THEN 2^(i - 1) ELSE 0)
    IN f[ExponentBits]

from_bits(bits) ==
    [sign |-> SignBit \in bits,
     exp  |-> ExpField(bits),
     mant |-> BitAnd(bits, MantissaPositions)]

is_nan(x) == x.exp = ExpAllOnes /\ x.mant # {}
is_infinite(x) == x.exp = ExpAllOnes /\ x.mant = {}
is_zero(x) == x.exp = 0 /\ x.mant = {}
is_subnormal(x) == x.exp = 0 /\ x.mant # {}
is_normal(x) == x.exp # 0 /\ x.exp # ExpAllOnes

(* f64 ==, IEEE-754: NaN equals nothing, +0.0 equals -0.0. *)
FloatEq(x, y) ==
    /\ ~is_nan(x)
    /\ ~is_nan(y)
    /\ \/ is_zero(x) /\ is_zero(y)
       \/ x = y

FloatZero == [sign |-> FALSE, exp |-> 0, mant |-> {}]

hash_u64_to_f64(h) == from_bits(hash_63_bits(h))

----------------------------------------------------------------------------
(* Inputs.                                                                 *)

MaxMantissa == 3

TestStarts == 16

(* tests::test_cases, lib.rs:84-94 *)
test_cases ==
    {ZERO} \cup {Shl(U64OfInt(start), shift) :
                    start \in 0..(TestStarts - 1), shift \in 0..(U64Bits - 1)}

Compose(s, e, m) ==
    (IF s THEN {SignBit} ELSE {})
    \cup {MantissaBits + i : i \in {j \in 0..(ExponentBits - 1) : (e \div 2^j) % 2 = 1}}
    \cup m

(* Mantissas near all-zeros and near all-ones. *)
Mantissas ==
    {U64OfInt(k) : k \in 0..MaxMantissa}
    \cup {MantissaPositions \ U64OfInt(k) : k \in 0..MaxMantissa}

(* Every sign and every exponent field, with the mantissas above; the      *)
(* cases of the test; and the all-ones word.                               *)
Inputs ==
    {Compose(s, e, m) : s \in BOOLEAN, e \in 0..ExpAllOnes, m \in Mantissas}
    \cup test_cases \cup {U64_MAX}

----------------------------------------------------------------------------
(* SpecFn: one call of the transform on one input.                         *)

InitFn ==
    /\ hash \in Inputs
    /\ result = None
    /\ float = None
    /\ asserted = None
    /\ pc = "start"
    /\ slots = None
    /\ args = None
    /\ out = None
    /\ cmp = None

CallHash63Bits ==
    /\ pc = "start"
    /\ result' = Some(hash_63_bits(hash))
    /\ pc' = "hashed"
    /\ UNCHANGED <<hash, float, asserted, slots, args, out, cmp>>

CallHashU64ToF64 ==
    /\ pc \in {"start", "hashed"}
    /\ float' = Some(hash_u64_to_f64(hash))
    /\ pc' = "converted"
    /\ UNCHANGED <<hash, result, asserted, slots, args, out, cmp>>

(* tests::no_invalid_values, lib.rs:99-103: one iteration's asserts. *)
no_invalid_values ==
    /\ pc = "converted"
    /\ hash \in test_cases
    /\ asserted' = Some(~FloatEq(Unwrap(float), FloatZero) /\ ~is_nan(Unwrap(float)))
    /\ pc' = "asserted"
    /\ UNCHANGED <<hash, result, float, slots, args, out, cmp>>

NextFn == CallHash63Bits \/ CallHashU64ToF64 \/ no_invalid_values

SpecFn == InitFn /\ [][NextFn]_vars

----------------------------------------------------------------------------
(* FloatHashOf<T>, lib.rs:9-32 and 57-77.                                  *)

MaxDelta == 1

(* Exponent fields at distance <= MaxDelta from a boundary of the two-bit  *)
(* window: 0, 512, 1024, 1536 from above and 511, 1023, 1535, 2047 from    *)
(* below.                                                                  *)
ExpEdges ==
    LET quarter == 2^(ExponentBits - 2)
    IN {e \in 0..ExpAllOnes :
           \E k \in 0..4, d \in 0..MaxDelta :
               e = k * quarter + d \/ e = k * quarter - 1 - d}

(* The all-zeros and the all-ones mantissa. *)
PairMantissas == {ZERO, MantissaPositions}

(* The hashes the wrappers are built from; holds 0 and u64::MAX. *)
PairInputs == {Compose(s, e, m) : s \in BOOLEAN, e \in ExpEdges, m \in PairMantissas}

Slots == {"a", "b"}

PhantomData == "PhantomData"

(* HashOf<T> of the hash_of crate: a u64 tagged with T. *)
HashOf(h) == [inner |-> h]
to_inner(hashof) == hashof.inner

(* A hashable value is known to this crate only through the 64 bit hash    *)
(* the external hasher gives it, HashOf::<Q>::from(value), lib.rs:74.      *)
Values == {[hashed |-> h] : h \in PairInputs}
HashOfFrom(value) == HashOf(value.hashed)

(* NonZeroU64::new_unchecked, lib.rs:63: undefined behaviour on 0, where   *)
(* any stored word may result.                                             *)
new_unchecked(x) == IF x = ZERO THEN PairInputs ELSE {x}

(* From<HashOf<T>> with the call of hash_63_bits left out. *)
FromHashOf_raw(hashof) ==
    {[hash |-> n, marker |-> PhantomData] : n \in new_unchecked(to_inner(hashof))}

(* impl From<HashOf<T>> for FloatHashOf<T>, lib.rs:57-67 *)
FromHashOf(hashof) ==
    LET h0 == to_inner(hashof)
        h1 == hash_63_bits(h0)
    IN {[hash |-> n, marker |-> PhantomData] : n \in new_unchecked(h1)}

(* impl From<&T> for FloatHashOf<Q>, lib.rs:72-77 *)
FromRef(value) ==
    LET hashof == HashOfFrom(value)
    IN FromHashOf(hashof)

(* FloatHashOf::into_inner, lib.rs:29-31 *)
into_inner(self) == from_bits(self.hash)

(* An equality that leaves the sign bit out. *)
eq_low63(self, other) ==
    self.hash \ {SignBit} = other.hash \ {SignBit} /\ self.marker = other.marker

(* #[derive(Eq, PartialEq)], lib.rs:9: field by field. *)
eq(self, other) == self.hash = other.hash /\ self.marker = other.marker

Init ==
    /\ slots = [i \in Slots |-> None]
    /\ args = [i \in Slots |-> None]
    /\ out = None
    /\ cmp = None
    /\ hash = None
    /\ result = None
    /\ float = None
    /\ asserted = None
    /\ pc = "idle"

ConstructFromHashOf(i, h) ==
    /\ slots[i] = None
    /\ \E w \in FromHashOf(HashOf(h)) : slots' = [slots EXCEPT ![i] = Some(w)]
    /\ args' = [args EXCEPT ![i] = Some([from |-> "HashOf", hash |-> h])]
    /\ UNCHANGED <<out, cmp, hash, result, float, asserted, pc>>

ConstructFromRef(i, v) ==
    /\ slots[i] = None
    /\ \E w \in FromRef(v) : slots' = [slots EXCEPT ![i] = Some(w)]
    /\ args' = [args EXCEPT ![i] = Some([from |-> "ref", hash |-> to_inner(HashOfFrom(v))])]
    /\ UNCHANGED <<out, cmp, hash, result, float, asserted, pc>>

(* Clone / Copy, lib.rs:19-25 *)
Clone(i, j) ==
    /\ slots[i] # None
    /\ slots[j] = None
    /\ slots' = [slots EXCEPT ![j] = slots[i]]
    /\ args' = [args EXCEPT ![j] = args[i]]
    /\ UNCHANGED <<out, cmp, hash, result, float, asserted, pc>>

IntoInner(i) ==
    /\ slots[i] # None
    /\ out' = Some([slot |-> i, value |-> into_inner(Unwrap(slots[i]))])
    /\ UNCHANGED <<slots, args, cmp, hash, result, float, asserted, pc>>

Compare ==
    /\ \A i \in Slots : slots[i] # None
    /\ cmp' = Some(eq(Unwrap(slots["a"]), Unwrap(slots["b"])))
    /\ UNCHANGED <<slots, args, out, hash, result, float, asserted, pc>>

Next ==
    \/ \E i \in Slots, h \in PairInputs : ConstructFromHashOf(i, h)
    \/ \E i \in Slots, v \in Values : ConstructFromRef(i, v)
    \/ \E i \in Slots, j \in Slots : Clone(i, j)
    \/ \E i \in Slots : IntoInner(i)
    \/ Compare

Spec == Init /\ [][Next]_vars

----------------------------------------------------------------------------
(* Properties of the transform, checked under SpecFn.                      *)

(* C1: for every input the output of hash_63_bits has an exponent field    *)
(* that is neither 0 nor 2047, and the double hash_u64_to_f64 returns is   *)
(* not NaN, not +/-Infinity, not a subnormal and not +/-0.0; the asserts   *)
(* of tests::no_invalid_values pass.                                       *)
C1_SafeDouble ==
    /\ result # None =>
          LET e == ExpField(Unwrap(result)) IN e # 0 /\ e # 2047
    /\ float # None =>
          LET x == Unwrap(float)
          IN /\ ~is_nan(x)
             /\ ~is_infinite(x)
             /\ ~is_subnormal(x)
             /\ ~is_zero(x)
             /\ is_normal(x)
    /\ asserted # None => Unwrap(asserted) = TRUE

(* The input is a NaN pattern and both functions have returned. *)
C1_Witness ==
    /\ is_nan(from_bits(hash))
    /\ result # None
    /\ float # None

(* C4: an input whose bits 62 and 61 are mixed (exactly one of them is 1)  *)
(* passes through hash_63_bits unchanged.                                  *)
C4_MixedUnchanged ==
    (result # None /\ ((62 \in hash) # (61 \in hash))) => Unwrap(result) = hash

(* A mixed-window input has been transformed. *)
C4_Witness ==
    /\ result # None
    /\ 61 \in hash
    /\ 62 \notin hash
    /\ 63 \in hash

(* C5: the sign bit (63) and the 52 mantissa bits (51..0) of the output    *)
(* are those of the input; only exponent bits can differ.                  *)
C5_SignMantissaKept ==
    /\ result # None =>
          LET r == Unwrap(result)
          IN /\ (63 \in r) = (63 \in hash)
             /\ r \cap (0..51) = hash \cap (0..51)
             /\ BitXor(r, hash) \subseteq 52..62
    /\ float # None =>
          /\ Unwrap(float).sign = from_bits(hash).sign
          /\ Unwrap(float).mant = from_bits(hash).mant

(* The transform changed an input with the sign set and a non-zero mantissa. *)
C5_Witness ==
    /\ result # None
    /\ Unwrap(result) # hash
    /\ 63 \in hash
    /\ hash \cap (0..51) # {}

(* C9: bits 62 and 61 both 0: the result is h OR EXP_1 (window 10); both   *)
(* 1: h XOR EXP_1 (window 01); otherwise h. So the output differs from the *)
(* input at most in bit 62, holds exactly one 1 among bits 62 and 61, and  *)
(* its exponent field lies in 512..1535.                                   *)
C9_ThreeWayBranch ==
    result # None =>
        LET r == Unwrap(result)
        IN /\ (62 \notin hash /\ 61 \notin hash) =>
                  (r = hash \cup {62} /\ 62 \in r /\ 61 \notin r)
           /\ (62 \in hash /\ 61 \in hash) =>
                  (r = hash \ {62} /\ 62 \notin r /\ 61 \in r)
           /\ ((62 \in hash) # (61 \in hash)) => r = hash
           /\ BitXor(r, hash) \subseteq {62}
           /\ (62 \in r) # (61 \in r)
           /\ ExpField(r) \in 512..1535

(* The XOR arm ran: both window bits of the input were 1. *)
C9_Witness ==
    /\ result # None
    /\ 62 \in hash
    /\ 61 \in hash
    /\ Unwrap(result) = hash \ {62}

----------------------------------------------------------------------------
(* Properties of FloatHashOf, checked under Spec.                          *)

Built == {i \in Slots : slots[i] # None}
Stored(i) == Unwrap(slots[i]).hash
Given(i) == Unwrap(args[i]).hash

(* The bit pattern of a double (f64::to_bits). *)
to_bits(x) == Compose(x.sign, x.exp, x.mant)

(* C2: the word handed to NonZeroU64::new_unchecked, hash_63_bits(h), is   *)
(* never 0, and the field of every constructed FloatHashOf is non-zero.    *)
C2_NonZeroStored ==
    \A i \in Built :
        /\ hash_63_bits(Given(i)) # ZERO
        /\ Stored(i) # ZERO

(* A FloatHashOf was built from the hash 0. *)
C2_Witness ==
    /\ "a" \in Built
    /\ Unwrap(args["a"]).from = "HashOf"
    /\ Given("a") = ZERO

(* C3: a == b exactly when the stored 64 bit words are equal, that is      *)
(* exactly when hash_63_bits(h1) = hash_63_bits(h2).                       *)
C3_EqIffBitsEqual ==
    cmp # None =>
        /\ Unwrap(cmp) = (Stored("a") = Stored("b"))
        /\ Unwrap(cmp) = (hash_63_bits(Given("a")) = hash_63_bits(Given("b")))

(* Two wrappers built from hashes that differ in the sign alone were       *)
(* compared.                                                               *)
C3_Witness ==
    /\ cmp = Some(FALSE)
    /\ BitXor(Given("a"), Given("b")) = {63}

(* C6: two inputs with the same output differ at most in bit 62, so no     *)
(* output has more than two preimages (one bit of the hash is lost).  The  *)
(* count over PairInputs depends on the slots alone and is taken in the    *)
(* states before any read or comparison, where every pair of slots occurs. *)
C6_AtMostTwoPreimages ==
    /\ \A i \in Built, j \in Built :
          hash_63_bits(Given(i)) = hash_63_bits(Given(j))
              => BitXor(Given(i), Given(j)) \subseteq {62}
    /\ \A i \in Built :
          (out = None /\ cmp = None) =>
              Cardinality({h \in PairInputs :
                              hash_63_bits(h) = hash_63_bits(Given(i))}) <= 2

(* Two different hashes were given and the same word is stored for both. *)
C6_Witness ==
    /\ Built = Slots
    /\ Given("a") # Given("b")
    /\ Stored("a") = Stored("b")

(* C7: hash_63_bits(0) is 0x4000000000000000 (bit 62 alone), the double    *)
(* 2.0: sign 0, exponent field 1024 (unbiased 1), mantissa 0; and          *)
(* hash_63_bits(u64::MAX) has an exponent field other than 2047, a normal  *)
(* double.                                                                 *)
C7_Extremes ==
    \A i \in Built :
        /\ Given(i) = ZERO =>
              /\ hash_63_bits(ZERO) = {62}
              /\ Stored(i) = {62}
              /\ hash_u64_to_f64(ZERO) = [sign |-> FALSE, exp |-> 1024, mant |-> {}]
              /\ hash_u64_to_f64(ZERO).exp - ExpBias = 1
              /\ (out # None /\ Unwrap(out).slot = i) =>
                     Unwrap(out).value = [sign |-> FALSE, exp |-> 1024, mant |-> {}]
        /\ Given(i) = U64_MAX =>
              /\ ExpField(hash_63_bits(U64_MAX)) # 2047
              /\ ExpField(Stored(i)) # 2047
              /\ is_normal(hash_u64_to_f64(U64_MAX))
              /\ (out # None /\ Unwrap(out).slot = i) =>
                     (~is_nan(Unwrap(out).value) /\ ~is_infinite(Unwrap(out).value))

(* One wrapper was built from 0 and read, the other from u64::MAX. *)
C7_Witness ==
    /\ Built = Slots
    /\ Given("a") = ZERO
    /\ Given("b") = U64_MAX
    /\ out # None
    /\ Unwrap(out).slot = "a"

(* C8: a wrapper built from the hash h, directly or through a reference to *)
(* a value whose external hash is h, stores hash_63_bits(h); into_inner    *)
(* returns the double with that bit pattern, hash_u64_to_f64(h); the two   *)
(* construction paths give the same wrapper.                               *)
C8_StoreAndRead ==
    /\ \A i \in Built : Stored(i) = hash_63_bits(Given(i))
    /\ out # None =>
          LET i == Unwrap(out).slot
          IN /\ to_bits(Unwrap(out).value) = Stored(i)
             /\ Unwrap(out).value = hash_u64_to_f64(Given(i))
    /\ \A i \in Built, j \in Built :
          (/\ Unwrap(args[i]).from = "ref"
           /\ Unwrap(args[j]).from = "HashOf"
           /\ Given(i) = Given(j)) => slots[i] = slots[j]

(* The same hash (one the transform changes) went in by reference and      *)
(* directly, and the first wrapper was read.                               *)
C8_Witness ==
    /\ Built = Slots
    /\ Unwrap(args["a"]).from = "ref"
    /\ Unwrap(args["b"]).from = "HashOf"
    /\ Given("a") = Given("b")
    /\ Stored("a") # Given("a")
    /\ out # None
    /\ Unwrap(out).slot = "a"

(* C10: on the outputs of the transform f64 == coincides with equality of  *)
(* the bits, and every output double equals itself; so comparing the       *)
(* into_inner() values agrees with comparing the wrappers.                 *)
C10_FloatEqIsBitEq ==
    /\ \A i \in Built, j \in Built :
          /\ FloatEq(hash_u64_to_f64(Given(i)), hash_u64_to_f64(Given(j)))
                = (hash_63_bits(Given(i)) = hash_63_bits(Given(j)))
          /\ FloatEq(into_inner(Unwrap(slots[i])), into_inner(Unwrap(slots[j])))
                = (Stored(i) = Stored(j))
    /\ \A i \in Built : FloatEq(into_inner(Unwrap(slots[i])), into_inner(Unwrap(slots[i])))
    /\ cmp # None =>
          Unwrap(cmp) = FloatEq(into_inner(Unwrap(slots["a"])),
                                into_inner(Unwrap(slots["b"])))

(* Wrappers built from the patterns of +0.0 and of a NaN were compared. *)
C10_Witness ==
    /\ cmp # None
    /\ is_zero(from_bits(Given("a")))
    /\ is_nan(from_bits(Given("b")))

====
